---- MODULE Spec2Model ----
(***************************************************************************)
(* Model of the form of src/routes/index.tsx: two text inputs (name, year) *)
(* validated with the Constraint Validation API, validation deferred until *)
(* the first submit, and a Year rule that depends on the Name value.       *)
(*                                                                         *)
(* A string is a sequence of one-character strings, so that trim, the      *)
(* regular expressions and Number() are computed on the characters.        *)
(***************************************************************************)
EXTENDS Integers, Sequences, FiniteSets, TLC

\* -------------------------------------------------------------- bounds
\* Longest string that is enumerated exhaustively over Alphabet.
MaxLen == 1

\* ------------------------------------------------------------ characters
UpperAZ == {"A", "B", "C", "D", "E", "F", "G", "H", "I", "J", "K", "L", "M",
            "N", "O", "P", "Q", "R", "S", "T", "U", "V", "W", "X", "Y", "Z"}

Digits == {"0", "1", "2", "3", "4", "5", "6", "7", "8", "9"}

\* U+2028 LINE SEPARATOR. Of the line terminators of JavaScript, a text
\* input's value can hold U+2028 and U+2029 (LF and CR are stripped from
\* it); the two behave alike, and U+2028 stands for both.
LineSeparator == "U+2028"

LineTerminators == {LineSeparator}

\* What trim() and Number() strip: white space and line terminators.
WhiteSpace == {" "} \cup LineTerminators

DigitValue(c) ==
    CASE c = "0" -> 0 [] c = "1" -> 1 [] c = "2" -> 2 [] c = "3" -> 3
      [] c = "4" -> 4 [] c = "5" -> 5 [] c = "6" -> 6 [] c = "7" -> 7
      [] c = "8" -> 8 [] c = "9" -> 9

\* ------------------------------------------------------- string functions
RECURSIVE TrimStart(_)
TrimStart(s) ==
    IF Len(s) > 0 /\ s[1] \in WhiteSpace THEN TrimStart(Tail(s)) ELSE s

RECURSIVE TrimEnd(_)
TrimEnd(s) ==
    IF Len(s) > 0 /\ s[Len(s)] \in WhiteSpace
    THEN TrimEnd(SubSeq(s, 1, Len(s) - 1))
    ELSE s

\* String.prototype.trim
Trim(s) == TrimEnd(TrimStart(s))

\* value.match(/^[A-Z].*$/): without the s flag . matches no line
\* terminator, and without the m flag $ matches at the end of the value only.
MatchUpperStart(s) ==
    /\ Len(s) > 0
    /\ s[1] \in UpperAZ
    /\ \A i \in 2..Len(s) : s[i] \notin LineTerminators

\* value.match(/^\d+$/)
MatchDigits(s) == Len(s) > 0 /\ \A i \in 1..Len(s) : s[i] \in Digits

RECURSIVE Decimal(_)
Decimal(s) ==
    IF Len(s) = 0 THEN 0
    ELSE 10 * Decimal(SubSeq(s, 1, Len(s) - 1)) + DigitValue(s[Len(s)])

\* A JavaScript number: NaN, or a value.
NaN == [nan |-> TRUE, val |-> 0]

Num(n) == [nan |-> FALSE, val |-> n]

\* Number(string) on strings of letters, digits and spaces: surrounding
\* white space is ignored, the empty string is 0, a digit string is its
\* decimal value, anything else is NaN.
Number(s) ==
    LET t == Trim(s)
    IN  IF Len(t) = 0 THEN Num(0)
        ELSE IF MatchDigits(t) THEN Num(Decimal(t))
        ELSE NaN

isNaN(x) == x.nan

\* x < n for a number literal n: false when x is NaN.
LessThan(x, n) == ~x.nan /\ x.val < n

\* ---------------------------------------------------------------- inputs
Newborn == <<"N", "e", "w", "b", "o", "r", "n">>

Alphabet == {"A", "1", " "}

RECURSIVE StringsOfLen(_)
StringsOfLen(n) ==
    IF n = 0 THEN {<<>>}
    ELSE {Append(s, c) : s \in StringsOfLen(n - 1), c \in Alphabet}

ShortStrings == UNION {StringsOfLen(n) : n \in 0..MaxLen}

\* Names that meet each branch of the name rules and of the Newborn rule.
NameSamples ==
    { Newborn,
      <<"n", "e", "w", "b", "o", "r", "n">>,
      <<"N", "e", "w", "b", "o", "r", "n", " ">>,
      <<"A", "l", "i", "c", "e">>,
      <<"a", "l", "i", "c", "e">>,
      <<" ", "A">>,
      <<"A", LineSeparator>> }

\* Years on both sides of 2000 and of 2024, with a leading zero, and with
\* white space around the digits.
YearSamples ==
    { <<"1", "9", "9", "9">>,
      <<"2", "0", "0", "0">>,
      <<"2", "0", "2", "3">>,
      <<"2", "0", "2", "4">>,
      <<"0", "2", "0", "2", "3">>,
      <<" ", "2", "0", "2", "4">>,
      <<"1", " ">>,
      <<"2", "0", "2", "4", LineSeparator>> }

\* What the user types into the name field and into the year field.
NameValues == ShortStrings \cup NameSamples

YearValues == ShortStrings \cup YearSamples

\* -------------------------------------------------------------- messages
MinYear == 2000

NewbornMinYear == 2024

Valid == ""

FieldIsInvalid == "Field is invalid"

FieldIsRequired == "Field is required"

FieldMustBeNumber == "Field must be a number"

NumberTooSmall == "Number must be greater or equal than 2000"

NewbornTooOld == "Newborn can not be born before 2024"

\* The initial content of the message regions: the &nbsp; of the markup.
Nbsp == "&nbsp;"

\* ------------------------------------------------------------ validators
\* The branch of name's onInput$ that chooses the custom validity.
NameCustomValidity(value) ==
    IF Len(Trim(value)) = 0 \/ ~MatchUpperStart(value)
    THEN FieldIsInvalid
    ELSE Valid

\* As YearCustomValidity, with the Newborn rule ahead of the 2000 rule.
YearCustomValidityNewbornFirst(value, name) ==
    IF Len(Trim(value)) = 0 THEN FieldIsRequired
    ELSE IF ~MatchDigits(value) \/ isNaN(Number(value)) THEN FieldMustBeNumber
    ELSE IF name = Newborn /\ LessThan(Number(value), NewbornMinYear)
         THEN NewbornTooOld
    ELSE IF LessThan(Number(value), MinYear) THEN NumberTooSmall
    ELSE Valid

\* As YearCustomValidity, with the name trimmed before it is compared.
YearCustomValidityTrimmedName(value, name) ==
    IF Len(Trim(value)) = 0 THEN FieldIsRequired
    ELSE IF ~MatchDigits(value) \/ isNaN(Number(value)) THEN FieldMustBeNumber
    ELSE IF LessThan(Number(value), MinYear) THEN NumberTooSmall
    ELSE IF Trim(name) = Newborn /\ LessThan(Number(value), NewbornMinYear)
         THEN NewbornTooOld
    ELSE Valid

\* The branch of year's onInput$ that chooses the custom validity;
\* name is new FormData(target.form).get("name").
YearCustomValidity(value, name) ==
    IF Len(Trim(value)) = 0 THEN FieldIsRequired
    ELSE IF ~MatchDigits(value) \/ isNaN(Number(value)) THEN FieldMustBeNumber
    ELSE IF LessThan(Number(value), MinYear) THEN NumberTooSmall
    ELSE IF name = Newborn /\ LessThan(Number(value), NewbornMinYear)
         THEN NewbornTooOld
    ELSE Valid

\* The values year's onInput$ passes to Number(): || and && evaluate their
\* right side only when the left side does not decide, so Number() is
\* reached only past the tests of emptiness and of the pattern.
YearParses(value, name) ==
    IF Len(Trim(value)) = 0 THEN {}
    ELSE IF ~MatchDigits(value) THEN {}
    ELSE {value}

\* ----------------------------------------------------------------- state
VARIABLES
    nameValue,     \* value of input[name=name]
    yearValue,     \* value of input[name=year]
    wasSubmitted,  \* the form has the attribute data-was-submitted
    nameMsg,       \* validationMessage of the name input ("" = valid)
    yearMsg,       \* validationMessage of the year input ("" = valid)
    nameText,      \* textContent of the span after the name input
    yearText,      \* textContent of the span after the year input
    pending,       \* inputs whose invalid event awaits its onInvalid$ handler
    event,         \* the user event handled last
    steps,         \* what the handler of that event did, in order
    emitted,       \* what that handler wrote to the console
    parsed,        \* the year values that handler passed to Number()
    twin           \* the form of a second run, for comparing two runs

vars == <<nameValue, yearValue, wasSubmitted, nameMsg, yearMsg,
          nameText, yearText, pending, event, steps, emitted, parsed, twin>>

\* The part of the state the input and submit handlers work on.
Form ==
    [nameValue |-> nameValue, yearValue |-> yearValue,
     wasSubmitted |-> wasSubmitted, nameMsg |-> nameMsg, yearMsg |-> yearMsg,
     pending |-> pending, steps |-> <<>>, emitted |-> <<>>, parsed |-> {}]

Step(op, field, name) == [op |-> op, field |-> field, name |-> name]

\* As ReportValidity, with no invalid event (reportValidity() left out).
ReportValidityNoEvent(f, field) == f

\* element.reportValidity(): an invalid element gets an invalid event.
\* The event's default (the browser's popup) is prevented; its onInvalid$
\* handler is no sync$ handler and runs once the framework has resolved it.
ReportValidity(f, field) ==
    LET msg == IF field = "name" THEN f.nameMsg ELSE f.yearMsg
    IN  IF msg # Valid THEN [f EXCEPT !.pending = @ \cup {field}] ELSE f

\* As YearOnInput, without the test of data-was-submitted.
YearOnInputUngated(f) ==
    ReportValidity(
        [f EXCEPT !.yearMsg = YearCustomValidity(f.yearValue, f.nameValue),
                  !.parsed = @ \cup YearParses(f.yearValue, f.nameValue),
                  !.steps = Append(@, Step("validate", "year", f.nameValue))],
        "year")

\* As YearOnInput, validating name as well.
YearOnInputValidatesName(f) ==
    IF ~f.wasSubmitted THEN f
    ELSE ReportValidity(ReportValidity(
            [f EXCEPT !.yearMsg = YearCustomValidity(f.yearValue, f.nameValue),
                      !.parsed = @ \cup YearParses(f.yearValue, f.nameValue),
                      !.nameMsg = NameCustomValidity(f.nameValue),
                      !.steps = @ \o <<Step("validate", "year", f.nameValue),
                                       Step("validate", "name", f.nameValue)>>],
            "year"), "name")

\* year's onInput$
YearOnInput(f) ==
    IF ~f.wasSubmitted THEN f
    ELSE ReportValidity(
            [f EXCEPT !.yearMsg = YearCustomValidity(f.yearValue, f.nameValue),
                      !.parsed = @ \cup YearParses(f.yearValue, f.nameValue),
                      !.steps = Append(@, Step("validate", "year", f.nameValue))],
            "year")

\* As NameOnInput, dispatching to year without validating name.
NameOnInputNoValidate(f) ==
    IF ~f.wasSubmitted THEN f ELSE YearOnInput(f)

\* As NameOnInput, without the dispatch of an input event to year.
NameOnInputNoDispatch(f) ==
    IF ~f.wasSubmitted THEN f
    ELSE ReportValidity(
            [f EXCEPT !.nameMsg = NameCustomValidity(f.nameValue),
                      !.steps = Append(@, Step("validate", "name", f.nameValue))],
            "name")

\* name's onInput$: validates, then dispatches an input event to year.
NameOnInput(f) ==
    IF ~f.wasSubmitted THEN f
    ELSE YearOnInput(ReportValidity(
            [f EXCEPT !.nameMsg = NameCustomValidity(f.nameValue),
                      !.steps = Append(@, Step("validate", "name", f.nameValue))],
            "name"))

\* input.dispatchEvent(new Event("input")): the sync$ handler runs at once.
DispatchInput(f, field) ==
    IF field = "name" THEN NameOnInput(f) ELSE YearOnInput(f)

\* As Inputs, with the year input ahead of the name input.
InputsYearFirst == <<"year", "name">>

\* formElement.querySelectorAll("input"), in document order.
Inputs == <<"name", "year">>

RECURSIVE ForEachInput(_, _)
ForEachInput(f, inputs) ==
    IF Len(inputs) = 0 THEN f
    ELSE ForEachInput(DispatchInput(f, Head(inputs)), Tail(inputs))

\* The form's validity: neither input has a custom error.
FormIsValid(f) == f.nameMsg = Valid /\ f.yearMsg = Valid

\* formElement.checkValidity(): each invalid input gets an invalid event.
CheckValidity(f) ==
    [f EXCEPT !.pending = @ \cup {x \in {"name"} : f.nameMsg # Valid}
                            \cup {x \in {"year"} : f.yearMsg # Valid},
              !.steps = Append(@, Step("checkValidity", "form", f.nameValue))]

\* As Record, with the name trimmed.
RecordTrimmed(f) == [name |-> Trim(f.nameValue), year |-> Number(f.yearValue)]

\* The record written to the console.
Record(f) == [name |-> f.nameValue, year |-> Number(f.yearValue)]

\* As OnSubmit, without the input events that re-validate the fields.
OnSubmitNoRevalidate(f) ==
    LET f1 == [f EXCEPT !.wasSubmitted = TRUE,
                        !.steps = Append(@, Step("setAttribute", "form", f.nameValue))]
        f3 == CheckValidity(f1)
    IN  IF ~FormIsValid(f3) THEN f3
        ELSE [f3 EXCEPT !.emitted = Append(@, Record(f3)),
                        !.parsed = @ \cup {f3.yearValue},
                        !.steps = Append(@, Step("log", "form", f3.nameValue))]

\* As OnSubmit, toggling the attribute instead of setting it.
OnSubmitToggle(f) ==
    LET f1 == [f EXCEPT !.wasSubmitted = ~f.wasSubmitted,
                        !.steps = Append(@, Step("setAttribute", "form", f.nameValue))]
        f2 == ForEachInput(f1, Inputs)
        f3 == CheckValidity(f2)
    IN  IF ~FormIsValid(f3) THEN f3
        ELSE [f3 EXCEPT !.emitted = Append(@, Record(f3)),
                        !.parsed = @ \cup {f3.yearValue},
                        !.steps = Append(@, Step("log", "form", f3.nameValue))]

\* As OnSubmit, checking the form's validity before the input events.
OnSubmitCheckFirst(f) ==
    LET f1 == [f EXCEPT !.wasSubmitted = TRUE,
                        !.steps = Append(@, Step("setAttribute", "form", f.nameValue))]
        f2 == CheckValidity(f1)
        f3 == ForEachInput(f2, Inputs)
    IN  IF ~FormIsValid(f2) THEN f3
        ELSE [f3 EXCEPT !.emitted = Append(@, Record(f3)),
                        !.parsed = @ \cup {f3.yearValue},
                        !.steps = Append(@, Step("log", "form", f3.nameValue))]

\* the form's onSubmit$
OnSubmit(f) ==
    LET f1 == [f EXCEPT !.wasSubmitted = TRUE,
                        !.steps = Append(@, Step("setAttribute", "form", f.nameValue))]
        f2 == ForEachInput(f1, Inputs)
        f3 == CheckValidity(f2)
    IN  IF ~FormIsValid(f3) THEN f3
        ELSE [f3 EXCEPT !.emitted = Append(@, Record(f3)),
                        !.parsed = @ \cup {f3.yearValue},
                        !.steps = Append(@, Step("log", "form", f3.nameValue))]

\* The state after a handler has run.
Becomes(f) ==
    /\ nameValue' = f.nameValue
    /\ yearValue' = f.yearValue
    /\ wasSubmitted' = f.wasSubmitted
    /\ nameMsg' = f.nameMsg
    /\ yearMsg' = f.yearMsg
    /\ pending' = f.pending
    /\ steps' = f.steps
    /\ emitted' = f.emitted
    /\ parsed' = f.parsed

\* --------------------------------------------------------------- actions
Init ==
    /\ nameValue = <<>>
    /\ yearValue = <<>>
    /\ wasSubmitted = FALSE
    /\ nameMsg = Valid
    /\ yearMsg = Valid
    /\ nameText = Nbsp
    /\ yearText = Nbsp
    /\ pending = {}
    /\ event = "none"
    /\ steps = <<>>
    /\ emitted = <<>>
    /\ parsed = {}
    /\ twin = [nameValue |-> <<>>, yearValue |-> <<>>, wasSubmitted |-> FALSE,
               nameMsg |-> Valid, yearMsg |-> Valid, pending |-> {},
               steps |-> <<>>, emitted |-> <<>>, parsed |-> {}]

\* The user changes the name field to v: its input event is handled.
NameInput(v) ==
    /\ Becomes(NameOnInput([Form EXCEPT !.nameValue = v]))
    /\ event' = "name"
    /\ UNCHANGED <<nameText, yearText, twin>>

EditName == \E v \in NameValues : NameInput(v)

\* The user changes the year field to v: its input event is handled.
YearInput(v) ==
    /\ Becomes(YearOnInput([Form EXCEPT !.yearValue = v]))
    /\ event' = "year"
    /\ UNCHANGED <<nameText, yearText, twin>>

EditYear == \E v \in YearValues : YearInput(v)

\* The user submits the form: onSubmit$ runs.
Submit ==
    /\ Becomes(OnSubmit(Form))
    /\ event' = "submit"
    /\ UNCHANGED <<nameText, yearText, twin>>

\* name's onInvalid$
NameOnInvalid ==
    /\ "name" \in pending
    /\ nameText' = nameMsg
    /\ pending' = pending \ {"name"}
    /\ UNCHANGED <<nameValue, yearValue, wasSubmitted, nameMsg, yearMsg,
                   yearText, event, steps, emitted, parsed, twin>>

\* year's onInvalid$
YearOnInvalid ==
    /\ "year" \in pending
    /\ yearText' = yearMsg
    /\ pending' = pending \ {"year"}
    /\ UNCHANGED <<nameValue, yearValue, wasSubmitted, nameMsg, yearMsg,
                   nameText, event, steps, emitted, parsed, twin>>

Next ==
    \/ EditName
    \/ EditYear
    \/ Submit
    \/ NameOnInvalid
    \/ YearOnInvalid

Spec == Init /\ [][Next]_vars

\* ------------------------------------------------------------ two runs
\* Two forms receive the same events: the same edits of year, submits at
\* the same moments, and edits of name at the same moments whose values
\* agree on being exactly "Newborn" and are otherwise unrelated (the second
\* run's names are the sample names). The message regions play no part in
\* the comparison and are left out.
TwinBegins(f) == [f EXCEPT !.steps = <<>>, !.emitted = <<>>, !.parsed = {}]

TwinEditName ==
    \E v \in NameValues, w \in NameSamples :
        /\ (v = Newborn) <=> (w = Newborn)
        /\ Becomes(NameOnInput([Form EXCEPT !.nameValue = v]))
        /\ twin' = NameOnInput([TwinBegins(twin) EXCEPT !.nameValue = w])
        /\ event' = "name"
        /\ UNCHANGED <<nameText, yearText>>

TwinEditYear ==
    \E v \in YearValues :
        /\ Becomes(YearOnInput([Form EXCEPT !.yearValue = v]))
        /\ twin' = YearOnInput([TwinBegins(twin) EXCEPT !.yearValue = v])
        /\ event' = "year"
        /\ UNCHANGED <<nameText, yearText>>

TwinSubmit ==
    /\ Becomes(OnSubmit(Form))
    /\ twin' = OnSubmit(TwinBegins(twin))
    /\ event' = "submit"
    /\ UNCHANGED <<nameText, yearText>>

TwinNext ==
    \/ TwinEditName
    \/ TwinEditYear
    \/ TwinSubmit

TwinSpec == Init /\ [][TwinNext]_vars

\* ------------------------------------------------------------- type check
TypeOK ==
    /\ nameValue \in NameValues
    /\ yearValue \in YearValues
    /\ wasSubmitted \in BOOLEAN
    /\ nameMsg \in {Valid, FieldIsInvalid}
    /\ yearMsg \in {Valid, FieldIsRequired, FieldMustBeNumber,
                    NumberTooSmall, NewbornTooOld}
    /\ pending \subseteq {"name", "year"}
    /\ event \in {"none", "name", "year", "submit"}

\* ----------------------------------------------- the rules, as specified
\* The trimmed string is empty.
TrimsToEmpty(s) == \A i \in 1..Len(s) : s[i] \in {" ", LineSeparator}

\* The string is one or more ASCII digits.
IsDigitString(s) == s # <<>> /\ \A i \in 1..Len(s) : s[i] \in Digits

\* The string starts with an uppercase ASCII letter.
StartsUppercase(s) == s # <<>> /\ s[1] \in UpperAZ

\* Year's message by the specification's rules, the first that matches.
SpecifiedYearMessage(year, name) ==
    IF TrimsToEmpty(year) THEN "Field is required"
    ELSE IF ~IsDigitString(year) THEN "Field must be a number"
    ELSE IF Decimal(year) < 2000 THEN "Number must be greater or equal than 2000"
    ELSE IF name = Newborn /\ Decimal(year) < 2024
         THEN "Newborn can not be born before 2024"
    ELSE ""

DigitChar(d) ==
    CASE d = 0 -> "0" [] d = 1 -> "1" [] d = 2 -> "2" [] d = 3 -> "3"
      [] d = 4 -> "4" [] d = 5 -> "5" [] d = 6 -> "6" [] d = 7 -> "7"
      [] d = 8 -> "8" [] d = 9 -> "9"

\* The decimal numeral of a natural number.
RECURSIVE Numeral(_)
Numeral(n) ==
    IF n < 10 THEN <<DigitChar(n)>>
    ELSE Append(Numeral(n \div 10), DigitChar(n % 10))

\* A digit string without its leading zeros.
RECURSIVE WithoutLeadingZeros(_)
WithoutLeadingZeros(s) ==
    IF Len(s) > 1 /\ s[1] = "0" THEN WithoutLeadingZeros(Tail(s)) ELSE s

\* The message region of a field shows its text only while the field is
\* invalid (peer-invalid:visible); otherwise nothing is displayed.
NameDisplayed == IF nameMsg # Valid THEN nameText ELSE ""

YearDisplayed == IF yearMsg # Valid THEN yearText ELSE ""

\* ------------------------------------------------------------------ C1
\* C1: as long as the form has not been submitted, whatever the fields
\* hold, both validation messages are empty, no invalid event is under way
\* and neither message region displays or holds an error text.
C1_NoMessageBeforeSubmit ==
    ~wasSubmitted =>
        /\ nameMsg = "" /\ yearMsg = ""
        /\ pending = {}
        /\ NameDisplayed = "" /\ YearDisplayed = ""
        /\ nameText = Nbsp /\ yearText = Nbsp

\* Both fields were edited to values that break their rules, no submit yet.
C1_Witness ==
    /\ ~wasSubmitted
    /\ event = "year"
    /\ nameValue = <<"a", "l", "i", "c", "e">>
    /\ yearValue = <<"1", "9", "9", "9">>

\* ------------------------------------------------------------------ C2
\* C2: the handler of a submit writes a record to the console if and only
\* if the name and year values it found pass their validators, the first
\* submit included; when a field is invalid it writes nothing.
C2_SubmitEmitsIffValid ==
    event = "submit" =>
        /\ Len(emitted) = (IF /\ NameCustomValidity(nameValue) = ""
                               /\ YearCustomValidity(yearValue, nameValue) = ""
                            THEN 1 ELSE 0)
        /\ (nameMsg # "" \/ yearMsg # "") => emitted = <<>>

\* A submit of invalid values was blocked: nothing was emitted.
C2_Witness ==
    /\ event = "submit"
    /\ nameValue = Newborn
    /\ yearValue = <<"2", "0", "2", "3">>
    /\ emitted = <<>>

\* ------------------------------------------------------------------ C3
\* C3: once the form has been submitted, the step that handles an edit of
\* a field leaves that field's message equal to its validator applied to
\* the new value (for year: and to the current name).
C3_EditRevalidates ==
    [][/\ (wasSubmitted /\ event' = "name" /\ NameInput(nameValue'))
           => nameMsg' = NameCustomValidity(nameValue')
       /\ (wasSubmitted /\ event' = "year" /\ YearInput(yearValue'))
           => yearMsg' = YearCustomValidity(yearValue', nameValue')]_vars

\* After a submit, an edit of year made the year invalid.
C3_Witness ==
    /\ wasSubmitted
    /\ event = "year"
    /\ yearValue = <<"1", "9", "9", "9">>
    /\ yearMsg = NumberTooSmall

\* ------------------------------------------------------------------ C4
\* C4: while validation is active, year's message is given by the first
\* matching rule of: required, number, at least 2000, Newborn at least
\* 2024, valid. Newborn with 1999 gets the 2000 message; digits with white
\* space around them get the number message.
C4_YearRuleOrder ==
    wasSubmitted =>
        /\ yearMsg = SpecifiedYearMessage(yearValue, nameValue)
        /\ (nameValue = Newborn /\ yearValue = <<"1", "9", "9", "9">>)
              => yearMsg = "Number must be greater or equal than 2000"
        /\ (IsDigitString(Trim(yearValue)) /\ Trim(yearValue) # yearValue)
              => yearMsg = "Field must be a number"

\* Newborn with 1999: the 2000 rule wins over the Newborn rule.
C4_Witness ==
    /\ wasSubmitted
    /\ nameValue = Newborn
    /\ yearValue = <<"1", "9", "9", "9">>
    /\ yearMsg = NumberTooSmall

C6_NameEditRevalidatesYear ==
    [][(wasSubmitted /\ event' = "name" /\ NameInput(nameValue')) =>
        /\ yearValue' = yearValue
        /\ yearMsg' = SpecifiedYearMessage(yearValue, nameValue')
        /\ (IsDigitString(yearValue) /\ Decimal(yearValue) \in 2000..2023) =>
              yearMsg' = (IF nameValue' = Newborn
                          THEN "Newborn can not be born before 2024"
                          ELSE "")]_vars

\* An edit of name to Newborn left the year 2023 invalid.
C6_Witness ==
    /\ wasSubmitted
    /\ event = "name"
    /\ nameValue = Newborn
    /\ yearValue = <<"2", "0", "2", "3">>
    /\ yearMsg = NewbornTooOld

C8_FlagLatch ==
    /\ ~wasSubmitted
    /\ [][/\ wasSubmitted => wasSubmitted'
          /\ (~wasSubmitted') => ~Submit
          /\ (~wasSubmitted /\ wasSubmitted') => Submit]_vars

\* The flag is still set after a blocked submit and a later edit.
C8_Witness ==
    /\ wasSubmitted
    /\ event = "name"
    /\ nameMsg # ""

\* ------------------------------------------------------------------ C9
\* C9: in two runs with the same events and the same year values, whose
\* name values agree on being exactly "Newborn" and otherwise differ freely
\* (valid or invalid), year's validation message is the same at every
\* moment: an invalid name never makes year invalid.
C9_YearSeesOnlyNewborn ==
    /\ yearMsg = twin.yearMsg
    /\ yearValue = twin.yearValue
    /\ wasSubmitted = twin.wasSubmitted

\* One run holds an invalid name, the other a valid one; year is valid.
C9_Witness ==
    /\ wasSubmitted
    /\ nameValue = <<"a", "l", "i", "c", "e">>
    /\ twin.nameValue = <<"A", "l", "i", "c", "e">>
    /\ nameMsg = FieldIsInvalid
    /\ twin.nameMsg = ""
    /\ yearValue = <<"2", "0", "2", "3">>
    /\ yearMsg = ""

\* ------------------------------------------------------------------ C10
StepsOf(op, field) ==
    {i \in 1..Len(steps) : steps[i].op = op /\ steps[i].field = field}

\* C10: the handler of a submit sets the flag first, then validates name
\* before year, and checks the form's validity once, after all of them;
\* year's last validation comes after name's and read the name value of
\* the submit.
C10_SubmitOrder ==
    event = "submit" =>
        LET names == StepsOf("validate", "name")
            years == StepsOf("validate", "year")
            checks == StepsOf("checkValidity", "form")
        IN  /\ steps[1].op = "setAttribute"
            /\ names # {} /\ years # {}
            /\ Cardinality(checks) = 1
            /\ \A c \in checks : \A v \in names \cup years : 1 < v /\ v < c
            /\ \A y \in years : \E n \in names : n < y
            /\ \E y \in years :
                  /\ \A v \in names \cup years : v <= y
                  /\ steps[y].name = nameValue

\* A first submit: both validators ran although no edit had validated.
C10_Witness ==
    /\ event = "submit"
    /\ nameValue = <<"a", "l", "i", "c", "e">>
    /\ yearValue = <<"2", "0", "2", "3">>
    /\ Len(steps) = 5

\* ------------------------------------------------------------------ C11
\* C11: once the invalid event of a field has been handled (none is
\* awaiting its handler), an invalid field's message region holds the
\* field's current validation message; after a submit with both fields
\* invalid this holds of both regions, not only of the first field's.
C11_RegionShowsMessage ==
    /\ (nameMsg # "" /\ "name" \notin pending) => nameText = nameMsg
    /\ (yearMsg # "" /\ "year" \notin pending) => yearText = yearMsg
    /\ (event = "submit" /\ nameMsg # "" /\ yearMsg # "") =>
          /\ "name" \in pending \/ nameText = nameMsg
          /\ "year" \in pending \/ yearText = yearMsg

\* A submit with both fields invalid, fully handled: both regions updated.
C11_Witness ==
    /\ event = "submit"
    /\ pending = {}
    /\ nameMsg = FieldIsInvalid /\ nameText = FieldIsInvalid
    /\ yearMsg = FieldIsRequired /\ yearText = FieldIsRequired

\* ------------------------------------------------------------------ C12
\* C12: the step that handles an edit of year leaves alone the name value,
\* name's validation message, name's region and what it displays, the flag
\* and name's invalid event, writes nothing to the console, and does not
\* run name's validator.
C12_YearEditFrame ==
    [][(event' = "year" /\ YearInput(yearValue')) =>
        /\ nameValue' = nameValue
        /\ nameMsg' = nameMsg
        /\ nameText' = nameText
        /\ NameDisplayed' = NameDisplayed
        /\ wasSubmitted' = wasSubmitted
        /\ pending' \ {"year"} = pending \ {"year"}
        /\ emitted' = <<>>
        /\ StepsOf("validate", "name")' = {}]_vars

\* After a submit, an edit of year changed year's message; name is as it was.
C12_Witness ==
    /\ wasSubmitted
    /\ event = "year"
    /\ nameMsg = FieldIsInvalid
    /\ yearMsg = FieldMustBeNumber
    /\ steps # <<>>

\* ------------------------------------------------------------------ C13
\* C13: every year value a handler passed to Number(), to compare the
\* result with 2000 or 2024 or to put it in the emitted record, is one or
\* more ASCII digits, whatever the fields hold; an emitted year is never
\* NaN.
C13_ParseGuarded ==
    /\ \A v \in parsed : IsDigitString(v)
    /\ \A i \in 1..Len(emitted) : emitted[i].year.nan = FALSE

\* A submit of digits followed by a space: rejected without any parse,
\* although Number() would have accepted the value.
C13_Witness ==
    /\ event = "submit"
    /\ yearValue = <<"1", " ">>
    /\ Number(yearValue) = Num(1)
    /\ yearMsg = FieldMustBeNumber
    /\ parsed = {}
    /\ emitted = <<>>

\* ------------------------------------------------------------------ C14
\* C14: once the flag is set, between any two events both validation
\* messages are what the validators yield on the current name and year
\* values: no field keeps a stale status, and year is never left valid
\* against an outdated name.
C14_MessagesFresh ==
    wasSubmitted =>
        /\ nameMsg = NameCustomValidity(nameValue)
        /\ yearMsg = YearCustomValidity(yearValue, nameValue)

\* Name was edited away from Newborn: year 2023 is valid again, while its
\* region still holds the Newborn message of before.
C14_Witness ==
    /\ wasSubmitted
    /\ event = "name"
    /\ nameValue = <<"A", "l", "i", "c", "e">>
    /\ yearValue = <<"2", "0", "2", "3">>
    /\ yearMsg = ""
    /\ yearText = NewbornTooOld

\* ------------------------------------------------------------------ C15
\* The fields whose validator the last handler ran, in order.
ValidatorRuns ==
    LET v == SelectSeq(steps, LAMBDA s : s.op = "validate")
    IN  [i \in 1..Len(v) |-> v[i].field]

\* C15 as stated: an edit of year runs 1 validator, an edit of name 2 (name,
\* then year), a submit 3 (name, year through name, year). It fails for an
\* edit made before the first submit, which runs no validator.
C15_RunsAsStated ==
    /\ event = "year" => ValidatorRuns = <<"year">>
    /\ event = "name" => ValidatorRuns = <<"name", "year">>
    /\ event = "submit" => ValidatorRuns = <<"name", "year", "year">>

\* C15, amended: every handler runs a bounded number of validators: once
\* the form has been submitted an edit of year runs 1, an edit of name 2
\* (name, then year), and before the first submit an edit runs none; a
\* submit runs 3 (name, year through name, year). Year never runs name's.
C15_RunsPerEvent ==
    /\ event = "year" =>
          ValidatorRuns = (IF wasSubmitted THEN <<"year">> ELSE <<>>)
    /\ event = "name" =>
          ValidatorRuns = (IF wasSubmitted THEN <<"name", "year">> ELSE <<>>)
    /\ event = "submit" => ValidatorRuns = <<"name", "year", "year">>
    /\ Len(ValidatorRuns) <= 3

\* After a submit, an edit of name ran name's validator, then year's.
C15_Witness ==
    /\ wasSubmitted
    /\ event = "name"
    /\ ValidatorRuns = <<"name", "year">>

\* ------------------------------------------------------------------ C16
\* The form in the middle of onSubmit$: the flag is set and name's input
\* event, which validates year as well, has been handled.
SubmitAfterName == DispatchInput([Form EXCEPT !.wasSubmitted = TRUE], "name")

\* The messages, the regions and what they display are as before the step;
\* a field that was invalid with its invalid event handled holds in its
\* region what the new invalid event's handler will write.
NothingChanges ==
    /\ nameMsg' = nameMsg /\ yearMsg' = yearMsg
    /\ nameText' = nameText /\ yearText' = yearText
    /\ NameDisplayed' = NameDisplayed /\ YearDisplayed' = YearDisplayed
    /\ (nameMsg # "" /\ "name" \notin pending) => nameText' = nameMsg'
    /\ (yearMsg # "" /\ "year" \notin pending) => yearText' = yearMsg'

\* C16: an input event delivered to a field whose value is unchanged
\* changes no validation message and no displayed text; the second
\* validation of year in a submit yields the message of the first; a submit
\* repeated with unchanged values changes nothing and has the same outcome.
C16_RevalidationIdempotent ==
    /\ [](YearOnInput(SubmitAfterName).yearMsg = SubmitAfterName.yearMsg)
    /\ [][/\ (event' = "name" /\ nameValue' = nameValue /\ NameInput(nameValue))
              => NothingChanges
          /\ (event' = "year" /\ yearValue' = yearValue /\ YearInput(yearValue))
              => NothingChanges
          /\ (event = "submit" /\ event' = "submit" /\ Submit)
              => (NothingChanges /\ emitted' = emitted)]_vars

\* Year's region already held the message when a later input event of
\* year, not yet followed by its onInvalid$, found the same message.
C16_Witness ==
    /\ wasSubmitted
    /\ event = "year"
    /\ yearValue = <<"1", "9", "9", "9">>
    /\ yearMsg = NumberTooSmall
    /\ yearText = NumberTooSmall
    /\ "year" \in pending

====
